---- MODULE Spec2Model ----
(***************************************************************************)
(* mysqldump2csv: the table registry, the output router and the driver of  *)
(* the current revision (type mySQLDump2Csv, src/README.md lines 649-965). *)
(*                                                                         *)
(* A statement is what sqlparser.ParseNext hands to Process.  An output    *)
(* line (a header or one row) is the unit of text: a bufio.Writer holds    *)
(* BufSize lines, and a write that finds it full flushes it first.         *)
(* Writes and os.Create made while Process runs succeed; a flush or a      *)
(* close made by Close may fail.                                           *)
(***************************************************************************)
EXTENDS Integers, Sequences, FiniteSets, TLC

\* ---------------------------------------------------------------- bounds
MaxStmts == 4        \* statements read by Process, over all inputs
MaxRows == 2         \* tuples of one INSERT
MaxInputs == 2       \* input streams handed to Process by main
BufSize == 2         \* lines a bufio.Writer holds before it flushes itself

Names == {"a", "b"}                    \* table names of the dumps
ColumnLists == {<<>>, <<"id", "name">>} \* a CREATE TABLE without / with columns
NoFilter == ""
Nil == 0                               \* the nil *SQLCsvWriter
Stdout == <<"out">>                      \* app.out, the shared destination

VARIABLES
    multi,        \* app.multi
    header,       \* app.header
    tableFilter,  \* app.tableFilter
    outIsCloser,  \* app.out implements io.Closer: os.Stdout, the default, does;
                  \* the bytes.Buffer a caller sets for single output does not
    tables,       \* app.tables: name -> Table
    sinks,        \* every SQLCsvWriter allocated so far, with its bufio.Writer and its io.Writer
    files,        \* destination -> the lines delivered to it
    outClosed,    \* app.out has been closed
    pc,           \* where main is: "process", "between", "done", "fatal", "panic"
    ninputs,      \* inputs handed to Process so far
    nstmts,       \* statements read so far
    last,         \* the statement Process dispatched last
    err,          \* the error the last call returned ("nil" when none)
    seen,         \* name -> tuples of the INSERTs accepted for that table so far
    delimiter,    \* app.delimiter, the Comma of every SQLCsvWriter
    newline,      \* app.newline, the Newline of every SQLCsvWriter
    record,       \* the expressions handed to Write, the table names handed to openCsv
    headerRow,    \* the column names handed to WriteHeader
    text,         \* the bytes it produced
    werr,         \* the error it returned
    op,           \* the function applied last
    scanner       \* process of the tokenizer revision: the place it is at, its
                  \* locals, the rows it wrote and the error it returned

vars == <<multi, header, tableFilter, outIsCloser, tables, sinks, files, outClosed,
          pc, ninputs, nstmts, last, err, seen, delimiter, newline, record, headerRow, text, werr, op,
          scanner>>

config == <<multi, header, tableFilter, outIsCloser, delimiter, newline>>

\* What one call of a writer function reads and leaves.
writer == <<record, headerRow, text, werr, op>>

\* ------------------------------------------------------------ statements
CreateStmts == [kind : {"create"}, table : Names, columns : ColumnLists]
\* An INSERT ... VALUES carries n tuples; an INSERT ... SELECT carries none.
InsertStmts ==
    [kind : {"insert"}, table : Names, cols : BOOLEAN, rows : {"values"}, n : 1..MaxRows]
    \cup [kind : {"insert"}, table : Names, cols : BOOLEAN, rows : {"select"}, n : {0}]
OtherStmts == [kind : {"other"}]
NoStmt == [kind |-> "none"]

\* ----------------------------------------------------------------- lines
HeaderLine(t) == [kind |-> "hdr", table |-> t.name, columns |-> t.columns]
RowLine(name, k) == [kind |-> "row", table |-> name, seq |-> k]

\* filepath.Clean of a relative path, given as its elements: a "." is
\* dropped, a ".." takes the element before it away unless there is none or
\* it is a ".." itself, and the empty path is ".".
RECURSIVE CleanFrom(_, _)
CleanFrom(elems, out) ==
    IF elems = << >> THEN out
    ELSE IF Head(elems) = "." THEN CleanFrom(Tail(elems), out)
    ELSE IF Head(elems) = ".." /\ out # << >> /\ out[Len(out)] # ".."
    THEN CleanFrom(Tail(elems), SubSeq(out, 1, Len(out) - 1))
    ELSE CleanFrom(Tail(elems), Append(out, Head(elems)))
Clean(elems) == IF CleanFrom(elems, << >>) = << >> THEN <<".">> ELSE CleanFrom(elems, << >>)

\* filepath.Join(app.root, t.name) + ".csv" for a table name given as the
\* elements its slashes separate: app.root, which main leaves empty, then the
\* cleaned name, then the suffix.
CsvFile(elems) == <<"root">> \o Clean(elems) \o <<".csv">>

\* The destination of a table's csv file, for a name without a slash.
Filename(name) == CsvFile(<<name>>)
Destinations == {Stdout} \cup {Filename(n) : n \in Names}

\* ---------------------------------------------------------------- tables
NoOut == << >>  \* the nil io.Writer
NewTable(name, columns) ==
    [name |-> name, columns |-> columns, out |-> NoOut, csv |-> Nil, count |-> 0]

\* Text is a sequence of one-character strings.
DefaultDelimiter == <<",">>
DefaultNewline == <<"\n">>

newMySQLDump2Csv ==
    /\ tables = << >>
    /\ sinks = << >>
    /\ files = [d \in Destinations |-> << >>]
    /\ outClosed = FALSE
    /\ delimiter = DefaultDelimiter
    /\ newline = DefaultNewline

\* No tokenizer is at work.
NoScanner == [at |-> "none"]

\* No writer function has been applied.
NoCall ==
    /\ record = << >>
    /\ headerRow = << >>
    /\ text = << >>
    /\ werr = "nil"
    /\ op = "none"
    /\ scanner = NoScanner

Init ==
    /\ multi \in BOOLEAN
    /\ header \in BOOLEAN
    /\ tableFilter \in {NoFilter} \cup Names
    /\ outIsCloser \in IF multi THEN {TRUE} ELSE BOOLEAN
    /\ newMySQLDump2Csv
    /\ pc = "process"
    /\ ninputs = 1
    /\ nstmts = 0
    /\ last = NoStmt
    /\ err = "nil"
    /\ seen = [n \in Names |-> 0]
    /\ NoCall

\* ----------------------------------------------------------------- sinks
\* A SQLCsvWriter over its destination: NewSQLCsvWriter(t.out).
NewSQLCsvWriter(name, dest) ==
    [table |-> name, out |-> dest, buf |-> << >>, closed |-> FALSE,
     headers |-> 0, rows |-> 0, tries |-> 0]

\* The state the handlers work on.
State(T, S, F, C) == [tables |-> T, sinks |-> S, files |-> F, outClosed |-> C]
Current == State(tables, sinks, files, outClosed)

\* bufio.Writer.WriteString of one line to sink i: a full buffer is flushed
\* to the destination before the line is buffered.
WriteString(st, i, line) ==
    LET sk == st.sinks[i] IN
    IF Len(sk.buf) >= BufSize
    THEN [st EXCEPT !.files[sk.out] = @ \o sk.buf,
                    !.sinks[i].buf = <<line>>]
    ELSE [st EXCEPT !.sinks[i].buf = Append(@, line)]

\* SQLCsvWriter.WriteHeader: the column names, then the terminator.
WriteHeader(st, i, t) ==
    LET w == WriteString(st, i, HeaderLine(t)) IN
    [w EXCEPT !.sinks[i].headers = @ + 1]

\* SQLCsvWriter.Write: one record, then the terminator.
Write(st, i, line) ==
    LET w == WriteString(st, i, line) IN
    [w EXCEPT !.sinks[i].rows = @ + 1]

\* The header wanted whatever columns are known.
WantsHeader_AnyColumns(t) == header

\* openCsv writes the header when headers are on and the columns are known.
WantsHeader(t) == header /\ Len(t.columns) > 0

\* openCsv: bind the table to its destination (a created, truncated file in
\* multi mode, app.out otherwise), wrap it in a new SQLCsvWriter, write the
\* header.
openCsv(st, name) ==
    LET dest == IF multi THEN Filename(name) ELSE Stdout
        i == Len(st.sinks) + 1
        opened == [st EXCEPT
                     !.files[dest] = IF multi THEN << >> ELSE @,
                     !.sinks = Append(@, NewSQLCsvWriter(name, dest)),
                     !.tables[name].csv = i,
                     !.tables[name].out = dest]
    IN IF WantsHeader(st.tables[name])
       THEN WriteHeader(opened, i, st.tables[name])
       ELSE opened

\* writeRows: the rows of one INSERT in order (rows from+1 .. from+n of the
\* table), then the count.
RECURSIVE WriteEach(_, _, _, _, _)
WriteEach(st, i, name, from, n) ==
    IF n = 0 THEN st
    ELSE WriteEach(Write(st, i, RowLine(name, from + 1)), i, name, from + 1, n - 1)

writeRows(st, name, from, n) ==
    LET w == WriteEach(st, st.tables[name].csv, name, from, n) IN
    [w EXCEPT !.tables[name].count = @ + n]

\* ------------------------------------------------------------- registry
Put(T, name, t) == [n \in DOMAIN T \cup {name} |-> IF n = name THEN t ELSE T[n]]

\* create: app.tables[name] = &Table{name: name, columns: columns}.
create(st, s) ==
    [st EXCEPT !.tables = Put(@, s.table, NewTable(s.table, s.columns))]

\* insert, first check: the INSERT names its columns.
SpecifiesColumns(s) == s.cols

\* The comparison with the filter turned round.
Filtered_Inverted(s) == tableFilter # NoFilter /\ tableFilter = s.table

\* insert, second check: the table filter is set and names another table.
Filtered(s) == tableFilter # NoFilter /\ tableFilter # s.table

\* insert, third check: a table not yet in the registry, single output, and
\* the registry is not empty.
MultipleTables(st, s) ==
    /\ s.table \notin DOMAIN st.tables
    /\ ~multi
    /\ Cardinality(DOMAIN st.tables) >= 1

\* insert, from the registry lookup on: the table is created on first use, its
\* csv is opened on the first write, the rows are written.  The result is the
\* new state and the error returned.
insertRows(st, s, from) ==
    LET known == IF s.table \in DOMAIN st.tables THEN st
                 ELSE [st EXCEPT !.tables = Put(@, s.table, NewTable(s.table, << >>))]
        open == IF known.tables[s.table].csv = Nil THEN openCsv(known, s.table)
                ELSE known
    IN IF s.rows = "values"
       THEN [st |-> writeRows(open, s.table, from, s.n), err |-> "nil"]
       ELSE [st |-> open, err |-> "unsupported insert"]

\* The filter consulted before the column list.
insert_FilterFirst(st, s, from) ==
    IF Filtered(s) THEN [st |-> st, err |-> "nil"]
    ELSE IF SpecifiesColumns(s) THEN [st |-> st, err |-> "specifies columns"]
    ELSE IF MultipleTables(st, s) THEN [st |-> st, err |-> "panic"]
    ELSE insertRows(st, s, from)

\* What insert returns: "panic" stands for the nil dereference of t.name in
\* the multiple-tables branch, where t is the nil result of the failed lookup.
insert(st, s, from) ==
    IF SpecifiesColumns(s) THEN [st |-> st, err |-> "specifies columns"]
    ELSE IF Filtered(s) THEN [st |-> st, err |-> "nil"]
    ELSE IF MultipleTables(st, s) THEN [st |-> st, err |-> "panic"]
    ELSE insertRows(st, s, from)

\* The INSERT reached writeRows: its tuples count for the table.
Accepted(st, s) ==
    /\ ~SpecifiesColumns(s)
    /\ ~Filtered(s)
    /\ ~MultipleTables(st, s)
    /\ s.rows = "values"

\* ---------------------------------------------------------------- driver
\* Process returns the handler's error at once; main then calls log.Fatal.
\* A panic unwinds main.
AfterHandler(e) ==
    IF e = "nil" THEN "process" ELSE IF e = "panic" THEN "panic" ELSE "fatal"

Install(st) ==
    /\ tables' = st.tables
    /\ sinks' = st.sinks
    /\ files' = st.files
    /\ outClosed' = st.outClosed

Reading == pc = "process" /\ nstmts < MaxStmts

\* Process, case *sqlparser.Insert.
ProcessInsert ==
    /\ Reading
    /\ \E s \in InsertStmts :
         LET r == insert(Current, s, seen[s.table]) IN
         /\ Install(r.st)
         /\ err' = r.err
         /\ pc' = AfterHandler(r.err)
         /\ last' = s
         /\ seen' = IF Accepted(Current, s)
                    THEN [seen EXCEPT ![s.table] = @ + s.n] ELSE seen
    /\ nstmts' = nstmts + 1
    /\ UNCHANGED <<config, scanner, writer, ninputs>>

\* Process, case *sqlparser.DDL with Action == CreateStr.
ProcessCreate ==
    /\ Reading
    /\ \E s \in CreateStmts :
         /\ Install(create(Current, s))
         /\ last' = s
    /\ err' = "nil"
    /\ nstmts' = nstmts + 1
    /\ UNCHANGED <<config, scanner, writer, pc, ninputs, seen>>

\* The parse error returned instead of logged.
ProcessOther_Abort ==
    /\ Reading
    /\ \E s \in OtherStmts : last' = s
    /\ err' = "parse error"
    /\ pc' = "fatal"
    /\ nstmts' = nstmts + 1
    /\ UNCHANGED <<config, scanner, writer, tables, sinks, files, outClosed, ninputs, seen>>

\* Process, every other statement and every statement that does not parse.
ProcessOther ==
    /\ Reading
    /\ \E s \in OtherStmts : last' = s
    /\ err' = "nil"
    /\ nstmts' = nstmts + 1
    /\ UNCHANGED <<config, scanner, writer, tables, sinks, files, outClosed, pc, ninputs, seen>>

\* Process, io.EOF: the loop ends and Process returns nil.
ProcessEOF ==
    /\ pc = "process"
    /\ pc' = "between"
    /\ err' = "nil"
    /\ UNCHANGED <<config, scanner, writer, tables, sinks, files, outClosed, ninputs, nstmts, last, seen>>

\* main: the next input of flag.Args().
NextInput ==
    /\ pc = "between"
    /\ ninputs < MaxInputs
    /\ ninputs' = ninputs + 1
    /\ pc' = "process"
    /\ UNCHANGED <<config, scanner, writer, tables, sinks, files, outClosed, nstmts, last, err, seen>>

\* ----------------------------------------------------------------- close
\* What the environment does to the flush and the close of one table's sink.
Outcomes == {"ok", "flush fails", "close fails"}

\* t.out implements io.Closer: an *os.File does, app.out may.
IsCloser(dest) == dest # Stdout \/ outIsCloser

\* The file behind the sink has been closed already.
HandleClosed(st, sk) == IF sk.out = Stdout THEN st.outClosed ELSE sk.closed

\* Table.Close under the given outcome: nothing for a nil csv; else Flush,
\* then Close of an io.Closer, then csv and out are set to nil.  An error
\* returns at once and leaves csv and out set.  A Flush of an empty buffer
\* writes nothing and cannot fail; a write to, or a close of, a closed file
\* fails.
TableClose(st, name, outcome) ==
    LET t == st.tables[name]
        i == t.csv
        sk == st.sinks[i]
        tried == [st EXCEPT !.sinks[i].tries = @ + 1]
        flushed == [tried EXCEPT !.files[sk.out] = @ \o sk.buf,
                                 !.sinks[i].buf = << >>]
        closed == [flushed EXCEPT !.sinks[i].closed = TRUE,
                                  !.outClosed = @ \/ sk.out = Stdout]
        released(x) == [x EXCEPT !.tables[name].csv = Nil,
                                 !.tables[name].out = NoOut]
    IN IF t.csv = Nil THEN [st |-> st, err |-> "nil"]
       ELSE IF Len(sk.buf) > 0 /\ (HandleClosed(st, sk) \/ outcome = "flush fails")
       THEN [st |-> tried, err |-> "flush"]
       ELSE IF ~IsCloser(sk.out) THEN [st |-> released(flushed), err |-> "nil"]
       ELSE IF HandleClosed(st, sk) \/ outcome = "close fails"
       THEN [st |-> closed, err |-> "close"]
       ELSE [st |-> released(closed), err |-> "nil"]

\* The loop of app.Close over the tables in the order the map yields them:
\* the first error returns.
RECURSIVE CloseEach(_, _, _)
CloseEach(st, order, outcome) ==
    IF order = << >> THEN [st |-> st, err |-> "nil"]
    ELSE LET r == TableClose(st, Head(order), outcome[Head(order)]) IN
         IF r.err # "nil" THEN [st |-> r.st, err |-> "failed to close csv files"]
         ELSE CloseEach(r.st, Tail(order), outcome)

\* The orders in which a range over the map may yield its keys.
Orders(T) ==
    LET n == Cardinality(DOMAIN T) IN
    {o \in [1..n -> DOMAIN T] : \A i, j \in 1..n : o[i] = o[j] => i = j}

\* app.Close, called by main after the last input; an error ends in log.Fatal.
Close ==
    /\ pc = "between"
    /\ \E order \in Orders(tables), outcome \in [DOMAIN tables -> Outcomes] :
         LET r == CloseEach(Current, order, outcome) IN
         /\ Install(r.st)
         /\ err' = r.err
         /\ pc' = IF r.err = "nil" THEN "done" ELSE "fatal"
    /\ UNCHANGED <<config, scanner, writer, ninputs, nstmts, last, seen>>

Next ==
    \/ ProcessInsert
    \/ ProcessCreate
    \/ ProcessOther
    \/ ProcessEOF
    \/ NextInput
    \/ Close

Spec == Init /\ [][Next]_vars

\* ---------------------------------------------------------------- values
\* An expression of a tuple: a sqlparser.SQLVal of one of these types with
\* its bytes, a sqlparser.NullVal, or any other expression.
SQLValTypes == {"StrVal", "IntVal", "FloatVal", "HexNum", "HexVal", "BitVal", "ValArg"}
SQLVal(type, val) == [kind |-> "SQLVal", type |-> type, val |-> val]
NullVal == [kind |-> "NullVal"]
FuncExpr == [kind |-> "FuncExpr"]

RECURSIVE Concat(_)
Concat(parts) == IF parts = << >> THEN << >> ELSE Head(parts) \o Concat(Tail(parts))

\* sqltypes.SQLEncodeMap: the bytes EncodeSQL escapes, with the character
\* written after the backslash.
SQLEncodeMap ==
    [c \in {"'", "\\", "\"", "\n"} |->
        CASE c = "'" -> "'" [] c = "\\" -> "\\" [] c = "\"" -> "\"" [] c = "\n" -> "n"]

\* The backslash left as it is.
EncodeByte_BackslashKept(c) ==
    IF c \in DOMAIN SQLEncodeMap /\ c # "\\" THEN <<"\\", SQLEncodeMap[c]>> ELSE <<c>>

EncodeByte(c) == IF c \in DOMAIN SQLEncodeMap THEN <<"\\", SQLEncodeMap[c]>> ELSE <<c>>

\* sqltypes.Value.EncodeSQL of a VarBinary: a quote, every byte escaped where
\* the map says so, a quote.
EncodeSQL(val) ==
    <<"'">> \o Concat([k \in DOMAIN val |-> EncodeByte(val[k])]) \o <<"'">>

\* A hex literal written as a quoted string.
writeValue_HexAsString(node) ==
    CASE node.type \in {"StrVal", "HexVal"} -> EncodeSQL(node.val)
      [] node.type \in {"IntVal", "FloatVal", "HexNum", "ValArg"} -> node.val
      [] node.type = "BitVal" -> <<"B", "'">> \o node.val \o <<"'">>

\* writeValue: the text of a SQLVal by its type.
writeValue(node) ==
    CASE node.type = "StrVal" -> EncodeSQL(node.val)
      [] node.type \in {"IntVal", "FloatVal", "HexNum"} -> node.val
      [] node.type = "HexVal" -> <<"X", "'">> \o node.val \o <<"'">>
      [] node.type = "BitVal" -> <<"B", "'">> \o node.val \o <<"'">>
      [] node.type = "ValArg" -> node.val

\* sqlparser.String of a SQLVal or a NullVal, as SQLCsvWriter.Write calls it:
\* the same text as writeValue, and null for a NullVal.
String(expr) ==
    IF expr.kind = "NullVal" THEN <<"n", "u", "l", "l">> ELSE writeValue(expr)

\* Any expression written, the unsupported one as nothing.
RECURSIVE WriteFrom_NoError(_, _, _, _, _)
WriteFrom_NoError(rec, i, comma, nl, out) ==
    IF i > Len(rec) THEN [text |-> out \o nl, err |-> "nil"]
    ELSE WriteFrom_NoError(rec, i + 1, comma, nl,
             out \o (IF rec[i].kind \in {"SQLVal", "NullVal"} THEN String(rec[i]) ELSE << >>)
                 \o (IF i < Len(rec) THEN comma ELSE << >>))

\* SQLCsvWriter.Write at the level of bytes: each expression, a Comma after
\* every one but the last, then the Newline; any other expression returns an
\* error and leaves what was written before it.
RECURSIVE WriteFrom(_, _, _, _, _)
WriteFrom(rec, i, comma, nl, out) ==
    IF i > Len(rec) THEN [text |-> out \o nl, err |-> "nil"]
    ELSE IF rec[i].kind \notin {"SQLVal", "NullVal"}
    THEN [text |-> out, err |-> "unsupported complex expression"]
    ELSE WriteFrom(rec, i + 1, comma, nl,
                   out \o String(rec[i]) \o (IF i < Len(rec) THEN comma ELSE << >>))

\* The Comma written after every expression, the last one too.
WriteRecord_TrailingComma(rec, comma, nl) ==
    IF \E k \in DOMAIN rec : rec[k].kind \notin {"SQLVal", "NullVal"}
    THEN WriteFrom(rec, 1, comma, nl, << >>)
    ELSE [text |-> Concat([k \in DOMAIN rec |-> String(rec[k]) \o comma]) \o nl,
          err |-> "nil"]

WriteRecord(rec, comma, nl) == WriteFrom(rec, 1, comma, nl, << >>)

\* SQLCsvWriter.WriteHeader at the level of bytes: each column name, a Comma
\* after every one but the last, then the Newline.
RECURSIVE HeaderFrom(_, _, _, _, _)
HeaderFrom(hdr, i, comma, nl, out) ==
    IF i > Len(hdr) THEN [text |-> out \o nl, err |-> "nil"]
    ELSE HeaderFrom(hdr, i + 1, comma, nl,
                    out \o hdr[i] \o (IF i < Len(hdr) THEN comma ELSE << >>))

\* The header left without its Newline.
WriteHeaderRecord_NoNewline(hdr, comma, nl) ==
    [text |-> HeaderFrom(hdr, 1, comma, << >>, << >>).text, err |-> "nil"]

WriteHeaderRecord(hdr, comma, nl) == HeaderFrom(hdr, 1, comma, nl, << >>)

\* SqlCsvWriter.Write, the writer of csvWriter.go: a Comma before every
\* expression but the first, writeValue for a SQLVal, NULL for a NullVal,
\* then the Newline.
SqlNull == <<"N", "U", "L", "L">>

\* A NullVal written as an empty field.
SqlField_EmptyNull(expr) == IF expr.kind = "NullVal" THEN << >> ELSE writeValue(expr)

SqlField(expr) == IF expr.kind = "NullVal" THEN SqlNull ELSE writeValue(expr)

RECURSIVE SqlWriteFrom(_, _, _, _, _)
SqlWriteFrom(rec, n, comma, nl, out) ==
    IF n > Len(rec) THEN [text |-> out \o nl, err |-> "nil"]
    ELSE LET sep == IF n > 1 THEN comma ELSE << >> IN
         IF rec[n].kind \notin {"SQLVal", "NullVal"}
         THEN [text |-> out \o sep, err |-> "unsupported complex expression"]
         ELSE SqlWriteFrom(rec, n + 1, comma, nl, out \o sep \o SqlField(rec[n]))

SqlWriteRecord(rec, comma, nl) == SqlWriteFrom(rec, 1, comma, nl, << >>)

\* ------------------------------------------------------- the writer alone
MaxLen == 2          \* bytes of a string literal
MaxFields == 2       \* expressions of a record, columns of a header

\* The bytes of the string literals: a letter, the quote, the backslash, the
\* newline and the default Comma.
Bytes == {"a", "'", "\\", "\n", ","}
Strings == UNION {[1..k -> Bytes] : k \in 0..MaxLen}

\* The bytes the tokenizer gives each type of literal.
Payloads(type) ==
    CASE type = "StrVal" -> Strings \cup {<<"0", "1">>}
      [] type = "IntVal" -> {<<"1">>, <<"0", "1">>}
      [] type = "FloatVal" -> {<<"2", ".", "3">>}
      [] type = "HexNum" -> {<<"0", "x", "1">>}
      [] type = "HexVal" -> {<<"4", "5", "6", "7">>, <<"0", "1">>}
      [] type = "BitVal" -> {<<"0", "1", "1", "0">>, <<"0", "1">>}
      [] type = "ValArg" -> {<<":", "v">>}

Values ==
    UNION {{SQLVal(type, val) : val \in Payloads(type)} : type \in SQLValTypes}
        \cup {NullVal, FuncExpr}

\* The record of TestNewSQLCsvWriter and its header.
TestRecord ==
    <<SQLVal("StrVal", <<"a">>), SQLVal("IntVal", <<"1">>),
      SQLVal("FloatVal", <<"2", ".", "3">>), SQLVal("HexVal", <<"4", "5", "6", "7">>),
      SQLVal("BitVal", <<"0", "1", "1", "0">>), NullVal>>
TestHeader ==
    <<<<"s", "t", "r", "i", "n", "g">>, <<"i", "n", "t">>, <<"f", "l", "o", "a", "t">>,
      <<"h", "e", "x">>, <<"b", "i", "t">>, <<"n", "u", "l", "l">>>>

\* One expression of each kind, for the records of several fields.
FieldValues ==
    {TestRecord[k] : k \in DOMAIN TestRecord} \cup {SQLVal("StrVal", <<",">>), FuncExpr}

Records ==
    {<<v>> : v \in Values}
        \cup UNION {[1..k -> FieldValues] : k \in 2..MaxFields}
        \cup {TestRecord}

ColumnNames == {<<"i", "d">>, <<"n", "a", "m", "e">>}
HeaderLists == UNION {[1..k -> ColumnNames] : k \in 1..MaxFields} \cup {TestHeader}

\* The -delimiter and -newline flags take any string.
Delimiters == {DefaultDelimiter, <<";">>, <<":", ":">>, << >>}
Newlines == {DefaultNewline, <<"\r", "\n">>}

\* A writer over a buffer, its Comma and Newline set, and a record and a
\* header to give it; no statement is read.
NoInput ==
    /\ header = TRUE
    /\ tableFilter = NoFilter
    /\ tables = << >>
    /\ sinks = << >>
    /\ files = [d \in Destinations |-> << >>]
    /\ outClosed = FALSE
    /\ pc = "done"
    /\ ninputs = 0
    /\ nstmts = 0
    /\ last = NoStmt
    /\ err = "nil"
    /\ seen = [n \in Names |-> 0]
    /\ scanner = NoScanner

InitWriter ==
    /\ multi = FALSE
    /\ outIsCloser = FALSE
    /\ NoInput
    /\ delimiter \in Delimiters
    /\ newline \in Newlines
    /\ record \in Records
    /\ headerRow \in HeaderLists
    /\ text = << >>
    /\ werr = "nil"
    /\ op = "none"

Returns(name, r) ==
    /\ op = "none"
    /\ op' = name
    /\ text' = r.text
    /\ werr' = r.err
    /\ UNCHANGED <<config, scanner, record, headerRow, tables, sinks, files, outClosed,
                   pc, ninputs, nstmts, last, err, seen>>

\* w.Write(record) of a SQLCsvWriter.
CallWrite == Returns("Write", WriteRecord(record, delimiter, newline))

\* w.WriteHeader(header) of a SQLCsvWriter.
CallWriteHeader == Returns("WriteHeader", WriteHeaderRecord(headerRow, delimiter, newline))

\* w.Write(record) of the SqlCsvWriter of csvWriter.go.
CallSqlWrite == Returns("SqlWrite", SqlWriteRecord(record, delimiter, newline))

NextWriter == CallWrite \/ CallWriteHeader \/ CallSqlWrite

SpecWriter == InitWriter /\ [][NextWriter]_vars

\* ------------------------------------------------------ one table's dump
\* The dump of testdata/single.sql: the table with the columns id and name,
\* whose k-th tuple is (k, the k-th letter).
Digit(d) == <<"0", "1", "2", "3", "4", "5", "6", "7", "8", "9">>[d + 1]
RECURSIVE Decimal(_)
Decimal(k) == IF k < 10 THEN <<Digit(k)>> ELSE Decimal(k \div 10) \o <<Digit(k % 10)>>
Letter(k) ==
    <<"A", "B", "C", "D", "E", "F", "G", "H", "I", "J", "K", "L", "M",
      "N", "O", "P", "Q", "R", "S", "T", "U", "V", "W", "X", "Y", "Z">>[((k - 1) % 26) + 1]
TupleOf(k) == <<SQLVal("IntVal", Decimal(k)), SQLVal("StrVal", <<Letter(k)>>)>>

\* c.Name.String() of the columns of the dumps.
ColumnName(c) == IF c = "id" THEN <<"i", "d">> ELSE <<"n", "a", "m", "e">>

\* The bytes of one line, as WriteHeader and Write produce them with the
\* writer's Comma and Newline.
LineText(line, comma, nl) ==
    IF line.kind = "hdr"
    THEN WriteHeaderRecord([k \in DOMAIN line.columns |-> ColumnName(line.columns[k])],
                           comma, nl).text
    ELSE WriteRecord(TupleOf(line.seq), comma, nl).text

\* The bytes of a destination.
FileText(lines, comma, nl) ==
    Concat([k \in DOMAIN lines |-> LineText(lines[k], comma, nl)])

\* main with the defaults but -header, given a dump of the one table a: its
\* CREATE TABLE first, then INSERT ... VALUES statements and anything else.
InitOneTable ==
    /\ Init
    /\ ~multi
    /\ header
    /\ tableFilter = NoFilter

CreateFirst ==
    /\ nstmts = 0
    /\ ProcessCreate
    /\ last'.table = "a"
    /\ last'.columns # << >>

InsertValues ==
    /\ nstmts > 0
    /\ ProcessInsert
    /\ last'.table = "a"
    /\ last'.rows = "values"
    /\ ~last'.cols

OtherAfterCreate == nstmts > 0 /\ ProcessOther
EOFAfterCreate == nstmts > 0 /\ ProcessEOF

NextOneTable ==
    \/ CreateFirst
    \/ InsertValues
    \/ OtherAfterCreate
    \/ EOFAfterCreate
    \/ NextInput
    \/ Close

SpecOneTable == InitOneTable /\ [][NextOneTable]_vars

\* ------------------------------------------------------ the file names
\* Table names as the tokenizer takes them between backquotes, each given as
\* the elements its slashes separate.
TableNames ==
    {<<"a">>, <<"b">>, <<".", "b">>, <<"b", ".">>, <<"a", "..", "b">>, <<"a", ".", "b">>,
     <<"a", "b">>, <<"..", "a">>, <<"..", "b">>, <<".">>}

\* -multi, and two tables to open a csv file for.
InitFiles ==
    /\ multi = TRUE
    /\ outIsCloser = TRUE
    /\ NoInput
    /\ delimiter = DefaultDelimiter
    /\ newline = DefaultNewline
    /\ record \in TableNames \X TableNames
    /\ headerRow = << >>
    /\ text = << >>
    /\ werr = "nil"
    /\ op = "none"

\* openCsv for each of the two tables: the files os.Create is given.
CallOpenCsv ==
    /\ op = "none"
    /\ op' = "openCsv"
    /\ text' = <<CsvFile(record[1]), CsvFile(record[2])>>
    /\ UNCHANGED <<config, scanner, record, headerRow, werr, tables, sinks, files, outClosed,
                   pc, ninputs, nstmts, last, err, seen>>

SpecFiles == InitFiles /\ [][CallOpenCsv]_vars

\* ------------------------------------------------- tuples of expressions
\* An INSERT ... VALUES whose tuple number bad holds, as its given field, an
\* expression that is no string, number, hex, bit or null literal: a bind
\* variable (a SQLVal of type ValArg) or a function call.
Expressions == {"ValArg", "FuncExpr"}
ExprOf(e) == IF e = "ValArg" THEN SQLVal("ValArg", <<":", "v">>) ELSE FuncExpr
ExprStmts ==
    {s \in [kind : {"insert"}, table : Names, cols : BOOLEAN, rows : {"exprs"},
            n : 1..MaxRows, bad : 1..MaxRows, field : 1..2, expr : Expressions] :
        s.bad <= s.n}
TupleWith(k, s) == [TupleOf(k) EXCEPT ![s.field] = ExprOf(s.expr)]
PartLine(name, k) == [kind |-> "part", table |-> name, seq |-> k]

\* insert of such a statement: the checks and the opening of the csv as for
\* any INSERT; writeRows returns the error of the first Write that fails,
\* with the rows before it written, the fields before the expression left in
\* the buffer, and the count as it was.
insertExprs(st, s, from) ==
    LET open == insertRows(st, [s EXCEPT !.rows = "values", !.n = 0], from).st
        i == open.tables[s.table].csv
        w == WriteRecord(TupleWith(from + s.bad, s), delimiter, newline)
        before == WriteEach(open, i, s.table, from, s.bad - 1)
    IN IF SpecifiesColumns(s) THEN [st |-> st, err |-> "specifies columns"]
       ELSE IF Filtered(s) THEN [st |-> st, err |-> "nil"]
       ELSE IF MultipleTables(st, s) THEN [st |-> st, err |-> "panic"]
       ELSE IF w.err = "nil"
       THEN [st |-> writeRows(open, s.table, from, s.n), err |-> "nil"]
       ELSE [st |-> IF w.text = << >> THEN before
                    ELSE WriteString(before, i, PartLine(s.table, from + s.bad)),
             err |-> w.err]

\* Process, case *sqlparser.Insert, for such a statement.
ProcessInsertExprs ==
    /\ Reading
    /\ \E s \in ExprStmts :
         LET r == insertExprs(Current, s, seen[s.table]) IN
         /\ Install(r.st)
         /\ err' = r.err
         /\ pc' = AfterHandler(r.err)
         /\ last' = s
         /\ seen' = IF Accepted(Current, [s EXCEPT !.rows = "values"]) /\ r.err = "nil"
                    THEN [seen EXCEPT ![s.table] = @ + s.n] ELSE seen
    /\ nstmts' = nstmts + 1
    /\ UNCHANGED <<config, scanner, writer, ninputs>>

\* main given one input, with or without -multi, -header and -table.
InitExprs ==
    /\ Init
    /\ outIsCloser
    /\ tableFilter \in {NoFilter, "b"}

NextExprs ==
    \/ ProcessInsertExprs
    \/ ProcessInsert
    \/ ProcessEOF
    \/ Close

SpecExprs == InitExprs /\ [][NextExprs]_vars

\* -------------------------------------------------- the tokenizer revision
\* process over a sqlparser.Tokenizer (src/README.md lines 404-633): the
\* tokens are handed out one Scan at a time.
MaxTokens == 10      \* tokens of an input before its end
ScanLimit == 10000   \* tokens scanUntilValues discards before it gives up

Tok(type, value) == [type |-> type, value |-> value]
EOF == Tok("EOF", << >>)       \* token 0
\* What tokens.Scan() may return: identifiers, keywords, the punctuation of
\* an INSERT, a number, a string, and the end of the input.
TokenSet ==
    {Tok("ID", <<"a">>), Tok("ID", <<"b">>),
     Tok("VALUES", <<"V", "A", "L", "U", "E", "S">>),
     Tok("INSERT", <<"I", "N", "S", "E", "R", "T">>),
     Tok("NULL", <<"n", "u", "l", "l">>),
     Tok("INTEGRAL", <<"3">>), Tok("STRING", <<"x">>),
     Tok("(", << >>), Tok(")", << >>), Tok(",", << >>), Tok(";", << >>), Tok("-", << >>),
     EOF}

\* process before its first Scan; prevToken and prevValue are the locals of the
\* call of scanUntilValues under way, loops its count.
NewScanner ==
    [at |-> "scanUntilValues", prevToken |-> "EOF", prevValue |-> << >>, loops |-> 0,
     currentTable |-> << >>, count |-> 0, row |-> << >>, rows |-> << >>,
     err |-> "nil", read |-> 0, token |-> EOF, tuples |-> 0]

\* return err from process.
Return(s, e) == [s EXCEPT !.at = "returned", !.err = e]

\* tokenError.
tokenError(s, expected) == Return(s, expected)

\* VALUES taken whatever stands before it.
scanUntilValues_AnyPrev(s, tok) ==
    IF tok.type = "EOF"
    THEN IF s.currentTable = << >> THEN Return(s, "found no tables") ELSE Return(s, "nil")
    ELSE IF tok.type = "VALUES"
    THEN [s EXCEPT !.at = "consumeRow",
                   !.currentTable = s.prevValue,
                   !.count = IF s.prevValue # s.currentTable THEN 0 ELSE @]
    ELSE [s EXCEPT !.prevToken = tok.type, !.prevValue = tok.value, !.loops = @ + 1]

\* The end of the input taken for a normal end whatever was read.
scanUntilValues_EOFIsNil(s, tok) ==
    IF tok.type = "EOF" THEN Return(s, "nil")
    ELSE IF tok.type = "VALUES"
    THEN IF s.prevToken # "ID"
         THEN Return(s, "found VALUES but it was not preceeded by a table name")
         ELSE [s EXCEPT !.at = "consumeRow",
                        !.currentTable = s.prevValue,
                        !.count = IF s.prevValue # s.currentTable THEN 0 ELSE @]
    ELSE [s EXCEPT !.prevToken = tok.type, !.prevValue = tok.value, !.loops = @ + 1]

\* scanUntilValues, one turn of its loop on the token scanned, and what
\* process does with the table or the error it returns.
scanUntilValues(s, tok) ==
    IF tok.type = "EOF"
    THEN IF s.currentTable = << >> THEN Return(s, "found no tables") ELSE Return(s, "nil")
    ELSE IF tok.type = "VALUES"
    THEN IF s.prevToken # "ID"
         THEN Return(s, "found VALUES but it was not preceeded by a table name")
         ELSE [s EXCEPT !.at = "consumeRow",
                        !.currentTable = s.prevValue,
                        !.count = IF s.prevValue # s.currentTable THEN 0 ELSE @]
    ELSE IF s.loops + 1 >= ScanLimit
    THEN Return(s, "unable to find 'INSERT INTO ... VALUES'")
    ELSE [s EXCEPT !.prevToken = tok.type, !.prevValue = tok.value, !.loops = @ + 1]

\* consumeRow, its first Scan: the '(' of the row.
consumeRow(s, tok) ==
    IF tok.type = "EOF" THEN Return(s, "EOF")
    ELSE IF tok.type # "(" THEN tokenError(s, "expected (")
    ELSE [s EXCEPT !.at = "value", !.row = << >>]

\* consumeRow after its loop: the row is written when the last token is the
\* ')', and process counts it.
endRow(s, tok) ==
    IF tok.type # ")" THEN tokenError(s, "expected )")
    ELSE [s EXCEPT !.at = "afterRow", !.rows = Append(@, s.row), !.count = @ + 1]

\* consumeRow, the Scan at the top of its loop: the ')', a '-', NULL, or a
\* value.
value(s, tok) ==
    IF tok.type = ")" THEN endRow(s, tok)
    ELSE IF tok.type = "-" THEN [s EXCEPT !.at = "minus"]
    ELSE IF tok.type = "NULL"
    THEN [s EXCEPT !.at = "separator", !.row = Append(@, <<"N", "U", "L", "L">>)]
    ELSE [s EXCEPT !.at = "separator", !.row = Append(@, tok.value)]

\* consumeRow, the Scan after a '-': the value is "-" and the next token's.
minus(s, tok) == [s EXCEPT !.at = "separator", !.row = Append(@, <<"-">> \o tok.value)]

\* consumeRow, the Scan after a value: a ',' goes round the loop again.
separator(s, tok) ==
    IF tok.type = "," THEN [s EXCEPT !.at = "value"] ELSE endRow(s, tok)

\* The ';' taken for a ','.
afterRow_SemicolonContinues(s, tok) ==
    IF tok.type \in {",", ";"} THEN [s EXCEPT !.at = "consumeRow"]
    ELSE tokenError(s, "expected , or ;")

\* process, the Scan after a row: ',' reads another row, ';' looks for the
\* next table with a new call of scanUntilValues.
afterRow(s, tok) ==
    IF tok.type = "," THEN [s EXCEPT !.at = "consumeRow"]
    ELSE IF tok.type = ";"
    THEN [s EXCEPT !.at = "scanUntilValues", !.prevToken = "EOF", !.prevValue = << >>,
                   !.loops = 0]
    ELSE tokenError(s, "expected , or ;")
\* The tokens an input can still give: none but the end after its end, and
\* the end alone once MaxTokens have been read.
Scannable ==
    IF scanner.read > 0 /\ scanner.token = EOF THEN {EOF}
    ELSE IF scanner.read >= MaxTokens THEN {EOF}
    ELSE TokenSet

\* One tokens.Scan() returned tok and the code after it ran to the next Scan
\* or to the return: s is what it left.  A '(' that opens a row is counted.
Scanned(s, tok) ==
    /\ scanner' = [s EXCEPT !.read = scanner.read + 1,
                            !.token = tok,
                            !.tuples = IF scanner.at = "consumeRow" /\ tok.type = "("
                                       THEN @ + 1 ELSE @]
    /\ UNCHANGED <<config, writer, tables, sinks, files, outClosed,
                   pc, ninputs, nstmts, last, err, seen>>

ScanUntilValues ==
    /\ scanner.at = "scanUntilValues"
    /\ \E tok \in Scannable : Scanned(scanUntilValues(scanner, tok), tok)

ConsumeRow ==
    /\ scanner.at = "consumeRow"
    /\ \E tok \in Scannable : Scanned(consumeRow(scanner, tok), tok)

ConsumeRowValue ==
    /\ scanner.at = "value"
    /\ \E tok \in Scannable : Scanned(value(scanner, tok), tok)

ConsumeRowMinus ==
    /\ scanner.at = "minus"
    /\ \E tok \in Scannable : Scanned(minus(scanner, tok), tok)

ConsumeRowSeparator ==
    /\ scanner.at = "separator"
    /\ \E tok \in Scannable : Scanned(separator(scanner, tok), tok)

ProcessAfterRow ==
    /\ scanner.at = "afterRow"
    /\ \E tok \in Scannable : Scanned(afterRow(scanner, tok), tok)

\* main of the tokenizer revision: a Tokenizer over the input, process not
\* yet at its first Scan.
InitTokens ==
    /\ multi = FALSE
    /\ outIsCloser = TRUE
    /\ header = TRUE
    /\ tableFilter = NoFilter
    /\ newMySQLDump2Csv
    /\ pc = "process"
    /\ ninputs = 1
    /\ nstmts = 0
    /\ last = NoStmt
    /\ err = "nil"
    /\ seen = [n \in Names |-> 0]
    /\ record = << >>
    /\ headerRow = << >>
    /\ text = << >>
    /\ werr = "nil"
    /\ op = "none"
    /\ scanner = NewScanner

NextTokens ==
    \/ ScanUntilValues
    \/ ConsumeRow
    \/ ConsumeRowValue
    \/ ConsumeRowMinus
    \/ ConsumeRowSeparator
    \/ ProcessAfterRow

SpecTokens == InitTokens /\ [][NextTokens]_vars

\* ---------------------------------------------------------------- claims
\* What the claims read off the state.
Rows(lines, name) ==
    SelectSeq(lines, LAMBDA l : l.kind = "row" /\ l.table = name)
Headers(lines) == SelectSeq(lines, LAMBDA l : l.kind = "hdr")
TablesWritten(lines) ==
    {lines[k].table : k \in {j \in DOMAIN lines : lines[j].kind = "row"}}
DestinationOf(name) == IF multi THEN Filename(name) ELSE Stdout
Held(i) == \E n \in DOMAIN tables : tables[n].csv = i
StatementStep == nstmts' = nstmts + 1
ProcessErrors == {"specifies columns", "unsupported insert"}

\* C1: after Process and Close, the row count recorded for a table equals the
\* number of tuples of all the INSERT statements for that table.
C1_CountEqualsTuples ==
    pc = "done" => \A n \in DOMAIN tables : tables[n].count = seen[n]

\* C2: in single-sink mode at most one distinct table ever has rows in the
\* shared destination.
C2_OneTableInSharedSink ==
    ~multi => Cardinality(TablesWritten(files[Stdout])) <= 1

\* C3: in single-sink mode an INSERT for a table other than the one that
\* already received rows returns the multiple-tables error, Process stops with
\* it, and none of the INSERT's rows are written.
C3_SecondTableIsRejected ==
    [][(/\ StatementStep
        /\ ~multi
        /\ last'.kind = "insert"
        /\ ~SpecifiesColumns(last')
        /\ ~Filtered(last')
        /\ \E i \in DOMAIN sinks :
              sinks[i].rows > 0 /\ sinks[i].table # last'.table)
       => (/\ err' = "multiple tables"
           /\ pc' = "fatal"
           /\ UNCHANGED <<sinks, files>>)]_vars

\* C4: a CREATE TABLE never destroys an open sink: a sink that no Close has
\* reached is still its table's csv, and the table's count still covers the
\* rows written to it.
C4_CreateKeepsOpenSink ==
    \A i \in DOMAIN sinks :
        sinks[i].tries = 0 =>
            /\ tables[sinks[i].table].csv = i
            /\ tables[sinks[i].table].count = sinks[i].rows

\* C5: a destination receives at most one header line, and only with headers
\* enabled and for a table whose columns are known.
C5_HeaderAtMostOnce ==
    \A d \in Destinations :
        /\ Len(Headers(files[d])) <= 1
        /\ \A k \in DOMAIN files[d] :
              files[d][k].kind = "hdr" => header /\ Len(files[d][k].columns) > 0

\* C6: after Process and a successful Close, a table's destination holds every
\* tuple of every INSERT for the table once, in the order of the input.
C6_RowsInEncounterOrder ==
    pc = "done" =>
        \A n \in Names :
            Rows(files[DestinationOf(n)], n) = [k \in 1..seen[n] |-> RowLine(n, k)]

\* C7: with the table filter set, an INSERT without a column list for another
\* table changes no table, no sink, no destination and no count.
C7_FilteredInsertChangesNothing ==
    [][(/\ StatementStep
        /\ last'.kind = "insert"
        /\ ~last'.cols
        /\ tableFilter # NoFilter
        /\ last'.table # tableFilter)
       => (/\ UNCHANGED <<tables, sinks, files, outClosed, seen, pc>>
           /\ err' = "nil")]_vars

C7_Witness ==
    /\ last.kind = "insert"
    /\ ~last.cols
    /\ tableFilter # NoFilter
    /\ last.table # tableFilter
    /\ pc = "process"
    /\ tableFilter \in DOMAIN tables
    /\ tables[tableFilter].count > 0
    /\ last.table \notin DOMAIN tables

\* C8: app.Close tries every sink the tables hold exactly once, also when the
\* flush or the close of one of them fails.
C8_CloseTriesEverySink ==
    (pc \in {"done", "fatal"} /\ err \notin ProcessErrors) =>
        \A i \in DOMAIN sinks : Held(i) => sinks[i].tries = 1

\* C9: when Process returns a fatal error, the rows already written to the
\* sinks still reach their destinations: every sink is flushed and closed.
C9_FlushedAfterFatalError ==
    (pc = "fatal" /\ err \in ProcessErrors) =>
        \A i \in DOMAIN sinks : sinks[i].rows > 0 => sinks[i].buf = << >> /\ sinks[i].tries > 0

\* C10: an INSERT with an explicit column list makes Process return an error
\* at that statement, writes none of its rows, and no later statement is
\* processed.
C10_ColumnListIsFatal ==
    [][/\ (StatementStep /\ last'.kind = "insert" /\ last'.cols)
            => (/\ err' = "specifies columns"
                /\ pc' = "fatal"
                /\ UNCHANGED <<tables, sinks, files, outClosed, seen>>)
       /\ (pc = "fatal" /\ err = "specifies columns") => UNCHANGED nstmts]_vars

C10_Witness ==
    /\ last.kind = "insert"
    /\ last.cols
    /\ pc = "fatal"
    /\ err = "specifies columns"
    /\ nstmts < MaxStmts
    /\ \E i \in DOMAIN sinks : sinks[i].rows > 0 /\ sinks[i].table = last.table

\* C11: a statement that does not parse, or is neither a CREATE TABLE nor an
\* INSERT, is skipped: Process returns no error for it, nothing changes, and
\* Process goes on reading, so the statements after it are still handled.
C11_OtherStatementIsSkipped ==
    /\ [][(StatementStep /\ last'.kind = "other")
            => (/\ err' = "nil"
                /\ pc' = "process"
                /\ UNCHANGED <<tables, sinks, files, outClosed, seen>>)]_vars
    /\ []((last.kind = "other" /\ nstmts < MaxStmts /\ pc = "process")
            => ENABLED ProcessInsert /\ ENABLED ProcessCreate)

C11_Witness ==
    /\ last.kind = "other"
    /\ pc = "process"
    /\ nstmts < MaxStmts
    /\ \E i \in DOMAIN sinks : sinks[i].rows > 0

\* The header of a and its first n tuples, in lines and in bytes.
DumpLines(n) ==
    <<HeaderLine(NewTable("a", <<"id", "name">>))>> \o [k \in 1..n |-> RowLine("a", k)]
ExampleText ==
    <<"i", "d", ",", "n", "a", "m", "e", "\n",
      "1", ",", "'", "A", "'", "\n",
      "2", ",", "'", "B", "'", "\n",
      "3", ",", "'", "C", "'", "\n">>
OutputIsDump ==
    /\ files[Stdout] = DumpLines(seen["a"])
    /\ seen["a"] = 3 => FileText(files[Stdout], delimiter, newline) = ExampleText

\* C12 as stated: in single-sink mode with headers and the defaults, a CREATE
\* TABLE followed by any number of INSERT statements, none included, leaves
\* exactly the header line and then one line per tuple in the output.
C12_HeaderThenRows_AnyNumber == pc = "done" => OutputIsDump

\* C12, amended: in single-sink mode with headers and the defaults, a CREATE
\* TABLE followed by one or more INSERT ... VALUES statements leaves exactly
\* the header line and then one line per tuple in the output; for the columns
\* id, name and the tuples (1,'A'), (2,'B'), (3,'C') the bytes are
\* id,name\n1,'A'\n2,'B'\n3,'C'\n.
C12_HeaderThenRows == (pc = "done" /\ seen["a"] >= 1) => OutputIsDump

C12_Witness ==
    /\ pc = "done"
    /\ seen["a"] = 3
    /\ last.kind = "insert"
    /\ last.n = 1
    /\ FileText(files[Stdout], delimiter, newline) = ExampleText

\* ------------------------------------------------------------ the writer
\* What the claims read off a call of the writer.
Kind(v) == IF v.kind = "SQLVal" THEN v.type ELSE v.kind
Supported(rec) == \A k \in DOMAIN rec : rec[k].kind \in {"SQLVal", "NullVal"}
Quoted(t) == Len(t) >= 2 /\ t[1] = "'" /\ t[Len(t)] = "'"

\* The text a literal of each kind is to have.
Notation(v) ==
    CASE Kind(v) \in {"IntVal", "FloatVal"} -> v.val
      [] Kind(v) = "HexVal" -> <<"X", "'">> \o v.val \o <<"'">>
      [] Kind(v) = "BitVal" -> <<"B", "'">> \o v.val \o <<"'">>
      [] Kind(v) = "NullVal" -> <<"n", "u", "l", "l">>

TestRecordText ==
    <<"'", "a", "'", ",", "1", ",", "2", ".", "3", ",",
      "X", "'", "4", "5", "6", "7", "'", ",", "B", "'", "0", "1", "1", "0", "'", ",",
      "n", "u", "l", "l", "\n">>

\* C13: SQLCsvWriter.Write renders each value by its kind: a string always
\* in quotes, an integer and a float verbatim, a hex literal as X'..', a bit
\* literal as B'..', a null as the text null; the record 'a', 1, 2.3,
\* X'4567', B'0110', null is rendered so, and no value of another kind, with
\* the same payload or any other, renders to the same text.
C13_RenderedByKind ==
    /\ (op = "Write" /\ Len(record) = 1 /\ Supported(record)) =>
         LET v == record[1]
             field == SubSeq(text, 1, Len(text) - Len(newline))
         IN /\ werr = "nil"
            /\ text = field \o newline
            /\ Kind(v) = "StrVal" => Quoted(field)
            /\ Kind(v) \in {"IntVal", "FloatVal", "HexVal", "BitVal", "NullVal"}
                 => field = Notation(v)
            /\ \A u \in Values :
                 (Supported(<<u>>) /\ Kind(u) # Kind(v))
                   => WriteRecord(<<u>>, delimiter, newline).text # text
    /\ (op = "Write" /\ record = TestRecord
          /\ delimiter = DefaultDelimiter /\ newline = DefaultNewline)
         => text = TestRecordText

C13_Witness ==
    /\ op = "Write"
    /\ record = <<SQLVal("HexVal", <<"0", "1">>)>>
    /\ text = <<"X", "'", "0", "1", "'">> \o newline
    /\ WriteRecord(<<SQLVal("StrVal", <<"0", "1">>)>>, delimiter, newline).text
         = <<"'", "0", "1", "'">> \o newline

\* The fields joined by the separator.
RECURSIVE Join(_, _)
Join(fields, sep) ==
    IF Len(fields) = 0 THEN << >>
    ELSE IF Len(fields) = 1 THEN fields[1]
    ELSE Join(SubSeq(fields, 1, Len(fields) - 1), sep) \o sep \o fields[Len(fields)]

Unescaped(c) == IF c = "n" THEN "\n" ELSE c
RECURSIVE Unescape(_)
Unescape(t) ==
    IF t = << >> THEN << >>
    ELSE IF Head(t) = "\\" /\ Len(t) >= 2
    THEN <<Unescaped(t[2])>> \o Unescape(SubSeq(t, 3, Len(t)))
    ELSE <<Head(t)>> \o Unescape(Tail(t))
Decode(enc) == Unescape(SubSeq(enc, 2, Len(enc) - 1))

\* The place of the first quote at or after i that no backslash escapes, 0
\* when there is none.
RECURSIVE ClosingQuote(_, _)
ClosingQuote(enc, i) ==
    IF i > Len(enc) THEN 0
    ELSE IF enc[i] = "\\" THEN ClosingQuote(enc, i + 2)
    ELSE IF enc[i] = "'" THEN i
    ELSE ClosingQuote(enc, i + 1)

\* C15: for every string value, those with a quote or a backslash included,
\* the encoded text is in quotes, decoding it gives back the original bytes,
\* and the first unescaped quote after the opening one is the closing one.
C15_StringRoundTrip ==
    (op \in {"Write", "SqlWrite"} /\ Len(record) = 1 /\ Kind(record[1]) = "StrVal") =>
        LET enc == SubSeq(text, 1, Len(text) - Len(newline)) IN
        /\ text = enc \o newline
        /\ Quoted(enc)
        /\ Decode(enc) = record[1].val
        /\ ClosingQuote(enc, 2) = Len(enc)

C15_Witness ==
    /\ op = "SqlWrite"
    /\ record = <<SQLVal("StrVal", <<"'", "\\">>)>>
    /\ text = <<"'", "\\", "'", "\\", "\\", "'">> \o newline

\* The occurrences of a non-empty separator in a text.
Occurrences(t, sep) ==
    Cardinality({i \in 1..(Len(t) - Len(sep) + 1) : SubSeq(t, i, i + Len(sep) - 1) = sep})
Chars(t) == {t[i] : i \in DOMAIN t}
\* No byte of the separator is a byte of the fields or of the terminator.
Apart(fields, sep, nl) ==
    /\ sep # << >>
    /\ Chars(sep) \cap (Chars(nl) \cup UNION {Chars(fields[k]) : k \in DOMAIN fields}) = {}
StartsWith(t, p) == Len(p) <= Len(t) /\ SubSeq(t, 1, Len(p)) = p
EndsWith(t, p) == Len(p) <= Len(t) /\ SubSeq(t, Len(t) - Len(p) + 1, Len(t)) = p
JoinedOnce(t, fields, sep, nl) ==
    /\ t = Join(fields, sep) \o nl
    /\ Apart(fields, sep, nl) =>
         /\ Occurrences(t, sep) = Len(fields) - 1
         /\ ~StartsWith(t, sep)
         /\ ~EndsWith(SubSeq(t, 1, Len(t) - Len(nl)), sep)

\* C16: Write and WriteHeader of SQLCsvWriter give the n encoded values, or
\* column names, in input order with the delimiter between each two, n-1
\* occurrences and none leading or trailing, then the terminator once; for
\* every n >= 1 and every delimiter and terminator.
C16_JoinedByDelimiter ==
    /\ (op = "Write" /\ Supported(record)) =>
         /\ werr = "nil"
         /\ JoinedOnce(text, [k \in DOMAIN record |-> String(record[k])], delimiter, newline)
    /\ op = "WriteHeader" =>
         /\ werr = "nil"
         /\ JoinedOnce(text, headerRow, delimiter, newline)

C16_Witness ==
    /\ op = "Write"
    /\ Len(record) = 2
    /\ delimiter = <<":", ":">>
    /\ record[1] = SQLVal("IntVal", <<"1">>) /\ record[2] = NullVal
    /\ text = <<"1", ":", ":", "n", "u", "l", "l">> \o newline

\* ------------------------------------------------------- runs and sinks
\* The destinations after app.Close visits the tables in the given order,
\* every flush and close succeeding where it can.
ClosedIn(order) ==
    CloseEach(Current, order, [n \in DOMAIN tables |-> "ok"]).st.files

\* C17: two runs over the same input with the same configuration leave the
\* same bytes on every sink: after the last input, the output does not
\* depend on the order in which Close visits the tables of the registry.
C17_OutputIndependentOfCloseOrder ==
    pc = "between" =>
        \A o1, o2 \in Orders(tables) : ClosedIn(o1) = ClosedIn(o2)

\* C18: a sink is opened only by the first row write for its table: a step
\* that opens one is an INSERT that returns no error and has written a row
\* to it; a CREATE TABLE, a filtered INSERT and a rejected INSERT open none.
C18_SinkOpenedOnlyByRowWrite ==
    [][(StatementStep /\ Len(sinks') > Len(sinks))
         => (/\ last'.kind = "insert"
             /\ err' = "nil"
             /\ sinks'[Len(sinks')].rows > 0)]_vars

\* C19: each table goes Uninitialized -> SchemaKnown -> SinkOpen -> Closed:
\* its sink is opened at most once and closed at most once, and once closed
\* it stays closed.
C19_SinkOpenedAndClosedOnce ==
    /\ \A n \in Names : Cardinality({i \in DOMAIN sinks : sinks[i].table = n}) <= 1
    /\ \A i \in DOMAIN sinks : sinks[i].tries <= 1

\* C20: in multi-sink mode every table that receives rows gets its own
\* destination, the file of its name under the root: two tables of different
\* names are given different files.
C20_OwnDestinationPerTable ==
    (op = "openCsv" /\ record[1] # record[2]) => text[1] # text[2]

\* ------------------------------------------------------------ the tokens
\* A Scan made at the given place of process, and the token it returned.
ScanAt(place) == scanner.at = place /\ scanner'.read = scanner.read + 1
Numeric(tok) == tok.type = "INTEGRAL"

\* C22: in a row, a '-' followed by a numeric token gives the one field '-'
\* and the number's text ('-', '3' give -3), and the '-' is merged only
\* into a numeric token.
C22_MinusMergesOnlyIntoNumber ==
    [][ScanAt("minus") =>
         LET tok == scanner'.token
             merged == Append(scanner.row, <<"-">> \o tok.value)
         IN IF Numeric(tok) THEN scanner'.row = merged ELSE scanner'.row # merged]_vars

\* C23: the end of the input met while looking for a statement, none having
\* been recognized, is reported as "found no tables"; met after a recognized
\* statement it ends process normally.
C23_NoTablesIsDistinct ==
    [][(ScanAt("scanUntilValues") /\ scanner'.token = EOF) =>
         /\ scanner'.at = "returned"
         /\ scanner.tuples = 0 => scanner'.err = "found no tables"
         /\ scanner.tuples > 0 => scanner'.err = "nil"]_vars

C23_Witness ==
    /\ scanner.at = "returned"
    /\ scanner.err = "found no tables"
    /\ scanner.read = 3
    /\ scanner.rows = << >>

\* C25: scanUntilValues returns a table name only when the VALUES keyword
\* stands right after an identifier, and the name is that identifier; a
\* VALUES after any other token, or after none, gives an error and no name.
C25_LookbackOfOneToken ==
    [][(ScanAt("scanUntilValues") /\ scanner'.token.type # "EOF") =>
         LET afterID == scanner.read > 0 /\ scanner.token.type = "ID" IN
         /\ scanner'.at = "consumeRow" <=> (scanner'.token.type = "VALUES" /\ afterID)
         /\ scanner'.at = "consumeRow" => scanner'.currentTable = scanner.token.value
         /\ (scanner'.token.type = "VALUES" /\ ~afterID) =>
              (/\ scanner'.at = "returned"
               /\ scanner'.err = "found VALUES but it was not preceeded by a table name"
               /\ scanner'.currentTable = scanner.currentTable)]_vars

C25_Witness ==
    /\ scanner.at = "consumeRow"
    /\ scanner.token.type = "VALUES"
    /\ scanner.currentTable = <<"b">>
    /\ scanner.read = 8
    /\ Len(scanner.rows) = 1

\* C26: after the ')' of a tuple a ',' makes process read another tuple of
\* the same INSERT and a ';' sends it back to looking for the next
\* statement; the rows written are as many as the tuples read.
C26_TuplesAndStatements ==
    /\ [][ScanAt("afterRow") =>
           /\ scanner'.token.type = "," =>
                (/\ scanner'.at = "consumeRow"
                 /\ scanner'.currentTable = scanner.currentTable)
           /\ scanner'.token.type = ";" => scanner'.at = "scanUntilValues"
           /\ scanner'.rows = scanner.rows]_vars
    /\ [](scanner.at \in {"afterRow", "scanUntilValues"}
            => (Len(scanner.rows) = scanner.tuples /\ scanner.count <= scanner.tuples))

C26_Witness ==
    /\ scanner.at = "scanUntilValues"
    /\ scanner.token.type = ";"
    /\ scanner.tuples = 2
    /\ scanner.count = 2
    /\ scanner.rows = <<<<"3">>, <<"x">>>>

\* ------------------------------------------------------- the expressions
\* A step of Process on an INSERT with such a tuple that gets as far as
\* writeRows.
WritesExprs ==
    /\ StatementStep
    /\ last'.rows = "exprs"
    /\ ~SpecifiesColumns(last') /\ ~Filtered(last') /\ ~MultipleTables(Current, last')
IsFatalForTheInput == err' = "unsupported complex expression" /\ pc' = "fatal"

OpensSink ==
    /\ StatementStep
    /\ last'.kind = "insert" /\ last'.rows = "values"
    /\ Len(sinks') = Len(sinks) + 1
ColumnsUnknown(name) == name \notin DOMAIN tables \/ tables[name].columns = << >>

\* C24: a table that receives rows with no known column list, no CREATE
\* TABLE seen or one without columns, has its sink opened without error and
\* without a header line, headers enabled or not, and its rows are written.
C24_NoColumnsNoHeader ==
    [][(OpensSink /\ ColumnsUnknown(last'.table)) =>
         LET i == Len(sinks') IN
         /\ err' = "nil" /\ pc' = "process"
         /\ tables'[last'.table].csv = i
         /\ sinks'[i].headers = 0
         /\ sinks'[i].rows = last'.n
         /\ \A k \in DOMAIN sinks'[i].buf : sinks'[i].buf[k].kind = "row"
         /\ Len(Headers(files'[sinks'[i].out])) <= Len(Headers(files[sinks'[i].out]))
         /\ seen'[last'.table] = seen[last'.table] + last'.n]_vars

C24_Witness ==
    /\ header
    /\ last.kind = "insert" /\ last.rows = "values"
    /\ "a" \in DOMAIN tables /\ tables["a"].columns = << >> /\ tables["a"].csv # Nil
    /\ last.table = "a"
    /\ sinks[tables["a"].csv].headers = 0
    /\ sinks[tables["a"].csv].rows = 2
    /\ nstmts = 2

\* C27: in single-sink mode an INSERT into a table is rejected for multiple
\* tables only when another table has received rows: CREATE TABLE statements
\* for tables that receive no rows do not make it fail.
C27_OnlyASecondWriterIsRejected ==
    [][(StatementStep /\ ~multi /\ last'.kind = "insert" /\ last'.rows = "values"
          /\ ~SpecifiesColumns(last') /\ ~Filtered(last')
          /\ \A n \in Names \ {last'.table} : seen[n] = 0)
         => (err' = "nil" /\ pc' = "process")]_vars

====
